---- MODULE Spec2Model ----
(***************************************************************************)
(* A model of the grain processor: grain segmentation, head/tail           *)
(* windowing, the silence filter and the analyzer glue of                  *)
(* grain_extractor.rs, and the two-stage thread-pool pipeline of main.rs.  *)
(*                                                                         *)
(* Numbers.  A sample is an integer in units of 1e-6 (One = 1.0).  A       *)
(* window coefficient is an integer in units of 1/WinDen.  f64 NaN is the  *)
(* value NaN, which every arithmetic operator below propagates and every   *)
(* comparison rejects, as IEEE 754 does.                                   *)
(*                                                                         *)
(* Signals.  An audio buffer is kept run-length encoded: a sequence of     *)
(* runs [x, hp, n], n >= 1 samples of amplitude x.  The field hp is the    *)
(* value the 220 Hz high-pass filter (the external biquad crate) yields at *)
(* those samples: the filter is not computed, its output is an input of    *)
(* the model that travels with the sample it belongs to.                   *)
(***************************************************************************)
EXTENDS Integers, Sequences, FiniteSets, Bags, TLC

\* ------------------------------------------------------------ arithmetic

One == 1000000
WinDen == 1000
NaN == 0 - 999999999

Abs(x) == IF x < 0 THEN 0 - x ELSE x
Min(a, b) == IF a <= b THEN a ELSE b

\* f64 `*=` of a sample by a window coefficient.
Mul(x, c) ==
    IF x = NaN \/ c = NaN THEN NaN
    ELSE IF x < 0 THEN 0 - (((0 - x) * c) \div WinDen)
    ELSE (x * c) \div WinDen

\* ---------------------------------------------------------------- signals

RECURSIVE SigLen(_)
SigLen(sig) == IF sig = <<>> THEN 0 ELSE Head(sig).n + SigLen(Tail(sig))

\* The run holding sample i (0-based); i < SigLen(sig).
RECURSIVE SigAt(_, _)
SigAt(sig, i) ==
    IF i < Head(sig).n THEN Head(sig) ELSE SigAt(Tail(sig), i - Head(sig).n)

RECURSIVE SigDrop(_, _)
SigDrop(sig, k) ==
    IF k = 0 \/ sig = <<>> THEN sig
    ELSE IF Head(sig).n <= k THEN SigDrop(Tail(sig), k - Head(sig).n)
    ELSE <<[Head(sig) EXCEPT !.n = @ - k]>> \o Tail(sig)

RECURSIVE SigTake(_, _)
SigTake(sig, k) ==
    IF k = 0 \/ sig = <<>> THEN <<>>
    ELSE IF Head(sig).n <= k THEN <<Head(sig)>> \o SigTake(Tail(sig), k - Head(sig).n)
    ELSE <<[Head(sig) EXCEPT !.n = k]>>

\* samples[lo..hi].to_vec() of a buffer, still run-length encoded.
SigSlice(sig, lo, hi) == SigTake(SigDrop(sig, lo), hi - lo)

\* audio[lo..hi].to_vec() as an explicit vector.
AudioSlice(audio, lo, hi) == [k \in 1..(hi - lo) |-> SigAt(audio, lo + k - 1).x]

\* filtered_audio[lo..hi].to_vec(): the high-pass filter's output there.
FilteredSlice(audio, lo, hi) == [k \in 1..(hi - lo) |-> SigAt(audio, lo + k - 1).hp]

\* ----------------------------------------------------------- segmentation

GrainFitsInclusive(i, grain_size, len) == i + grain_size <= len

\* The loop condition of extract_grain_frames.
GrainFits(i, grain_size, len) == i + grain_size < len

RECURSIVE ExtractFrom(_, _, _, _)
ExtractFrom(len, grain_size, grain_spacing, i) ==
    IF GrainFits(i, grain_size, len)
    THEN <<<<i, i + grain_size>>>> \o ExtractFrom(len, grain_size, grain_spacing, i + grain_spacing)
    ELSE <<>>

extract_grain_frames(audio, grain_size, grain_spacing, initial_offset) ==
    ExtractFrom(SigLen(audio), grain_size, grain_spacing, initial_offset)

\* --------------------------------------------------------------- windowing

\* aus::generate_window (external): n coefficients of a taper.  Hanning and
\* Hamming use Bhaskara's rational approximation of the sine; a one-point
\* taper divides 0 by 0.
HanningCoef(i, n) ==
    LET q == (n - 1) * (n - 1)
        p == i * (n - 1 - i)
        s == (16 * WinDen * p) \div (5 * q - 4 * p)
    IN  (s * s) \div WinDen

WindowCoef(window_type, i, n) ==
    IF window_type = "Rectangular" THEN WinDen
    ELSE IF n = 1 THEN NaN
    ELSE IF window_type = "Hanning" THEN HanningCoef(i, n)
    ELSE IF window_type = "Hamming" THEN (8 * WinDen) \div 100 + (92 * HanningCoef(i, n)) \div 100
    ELSE WinDen - Abs((2 * WinDen * i) \div (n - 1) - WinDen)

generate_window(window_type, n) == [j \in 1..n |-> WindowCoef(window_type, j - 1, n)]

\* grain[idx] *= coef (idx 0-based).
ScaleAt(grain, idx, coef) == [grain EXCEPT ![idx + 1] = Mul(@, coef)]

TailStartShort(n, w) == n - w \div 2

\* let mut idx = grain.len() - (window.len() - window.len() / 2);
TailStart(n, w) == n - (w - w \div 2)

\* for j in 0..window.len() / 2 { grain[j] *= window[j]; }
RECURSIVE ApplyHead(_, _, _)
ApplyHead(grain, window, j) ==
    IF j >= Len(window) \div 2 THEN grain
    ELSE ApplyHead(ScaleAt(grain, j, window[j + 1]), window, j + 1)

\* for j in window.len() / 2..window.len() { grain[idx] *= window[j]; idx += 1; }
RECURSIVE ApplyTail(_, _, _, _)
ApplyTail(grain, window, j, idx) ==
    IF j >= Len(window) THEN grain
    ELSE ApplyTail(ScaleAt(grain, idx, window[j + 1]), window, j + 1, idx + 1)

ApplyWindow(grain, window) ==
    ApplyTail(ApplyHead(grain, window, 0), window, Len(window) \div 2,
              TailStart(Len(grain), Len(window)))

\* The taper indexes past the grain (or its start index underflows): a panic.
WindowPanics(n, w) == w - w \div 2 > n

\* ---------------------------------------------------------- silence filter

\* 1e-3 and 1e-5 in sample units; the run lengths of the two policies.
EpsA == 1000
EpsB == 10
ZeroRunDiv == 8
ZeroRunB == 50

\* grain[i].abs() < effective_zero
NearZero(x, effective_zero) == x # NaN /\ Abs(x) < effective_zero

\* One pass of the loop body of check_zeros on sample x; st is the counter
\* and whether the function has returned true.
ZeroStep(st, x, num_consecutive_zeros, effective_zero) ==
    IF st.found THEN st
    ELSE IF NearZero(x, effective_zero)
         THEN [consecutive |-> st.consecutive + 1,
               found |-> st.consecutive + 1 >= num_consecutive_zeros]
         ELSE [consecutive |-> 0, found |-> FALSE]

\* The loop of check_zeros over samples lo..hi (1-based) from state st, the
\* range halved so that the evaluation stays shallow.
RECURSIVE ZeroLoop(_, _, _, _, _, _)
ZeroLoop(grain, num_consecutive_zeros, effective_zero, lo, hi, st) ==
    IF lo > hi THEN st
    ELSE IF lo = hi THEN ZeroStep(st, grain[lo], num_consecutive_zeros, effective_zero)
    ELSE LET mid == (lo + hi) \div 2
             left == ZeroLoop(grain, num_consecutive_zeros, effective_zero, lo, mid, st)
         IN  IF left.found THEN left
             ELSE ZeroLoop(grain, num_consecutive_zeros, effective_zero, mid + 1, hi, left)

check_zeros_from_second(grain, num_consecutive_zeros, effective_zero) ==
    ZeroLoop(grain, num_consecutive_zeros, effective_zero, 2, Len(grain),
             [consecutive |-> 0, found |-> FALSE]).found

check_zeros(grain, num_consecutive_zeros, effective_zero) ==
    ZeroLoop(grain, num_consecutive_zeros, effective_zero, 1, Len(grain),
             [consecutive |-> 0, found |-> FALSE]).found

RejectedBothPolicies(filtered_grain) ==
    check_zeros(filtered_grain, Len(filtered_grain) \div ZeroRunDiv, EpsA)
    /\ check_zeros(filtered_grain, ZeroRunB, EpsB)

\* The negation of the condition under which analyze_grains keeps a grain.
Rejected(filtered_grain) ==
    check_zeros(filtered_grain, Len(filtered_grain) \div ZeroRunDiv, EpsA)
    \/ check_zeros(filtered_grain, ZeroRunB, EpsB)

\* ---------------------------------------------------------------- analyzer

\* 10^(-6/20) in units of 1e-3.
TargetPeakMilli == 501

\* The largest magnitude among buf[lo..hi]; NaN never compares greater.
RECURSIVE PeakOf(_, _, _)
PeakOf(buf, lo, hi) ==
    IF lo > hi THEN 0
    ELSE IF lo = hi THEN (IF buf[lo] = NaN THEN 0 ELSE Abs(buf[lo]))
    ELSE LET mid == (lo + hi) \div 2
             l == PeakOf(buf, lo, mid)
             r == PeakOf(buf, mid + 1, hi)
         IN  IF l >= r THEN l ELSE r

\* aus::operations::adjust_level (external): scale so that the peak is the
\* target level; a silent buffer is scaled by target / 0.
adjust_level(buf) ==
    LET peak == PeakOf(buf, 1, Len(buf))
        Scale(x) == IF x = NaN \/ peak = 0 THEN NaN
                    ELSE IF x < 0 THEN 0 - ((((0 - x) * TargetPeakMilli) \div peak) * (One \div 1000))
                    ELSE ((x * TargetPeakMilli) \div peak) * (One \div 1000)
    IN  [k \in 1..Len(buf) |-> Scale(buf[k])]

\* aus::analysis::energy (external): the sum of squares, in units of 1e-6.
RECURSIVE EnergyOf(_, _, _)
EnergyOf(buf, lo, hi) ==
    IF lo > hi THEN 0
    ELSE IF lo = hi
         THEN (IF buf[lo] = NaN THEN NaN ELSE (Abs(buf[lo]) \div 1000) * (Abs(buf[lo]) \div 1000))
    ELSE LET mid == (lo + hi) \div 2
             l == EnergyOf(buf, lo, mid)
             r == EnergyOf(buf, mid + 1, hi)
         IN  IF l = NaN \/ r = NaN THEN NaN ELSE l + r

energy(buf) == EnergyOf(buf, 1, Len(buf))

\* grains[i].extend(vec![0.0; fft_size - grains[i].len()])
ZeroPad(grain, fft_size) ==
    [k \in 1..Len(grain) + (fft_size - Len(grain)) |-> IF k <= Len(grain) THEN grain[k] ELSE 0]

\* A buffer as runs <<value, count>>: how an entry records what was analysed.
RECURSIVE RunsOf(_, _, _)
RunsOf(buf, lo, hi) ==
    IF lo > hi THEN <<>>
    ELSE IF lo = hi THEN <<<<buf[lo], 1>>>>
    ELSE LET mid == (lo + hi) \div 2
             l == RunsOf(buf, lo, mid)
             r == RunsOf(buf, mid + 1, hi)
         IN  IF l[Len(l)][1] = r[1][1]
             THEN SubSeq(l, 1, Len(l) - 1) \o <<<<r[1][1], l[Len(l)][2] + r[1][2]>>>> \o Tail(r)
             ELSE l \o r

Runs(buf) == RunsOf(buf, 1, Len(buf))

FrameSize(frame) == frame[2] - frame[1]

VerifyFirstOnly(grain_frames, fft_size) ==
    grain_frames # <<>> /\ FrameSize(grain_frames[1]) > fft_size

\* The "Verify grain size" loop: some frame is longer than the FFT.
VerifyTooLong(grain_frames, fft_size) ==
    \E i \in 1..Len(grain_frames) : FrameSize(grain_frames[i]) > fft_size

\* Slicing or windowing some frame panics.
ExtractPanics(audio, grain_frames, w) ==
    \E i \in 1..Len(grain_frames) :
        \/ grain_frames[i][2] > SigLen(audio)
        \/ WindowPanics(FrameSize(grain_frames[i]), w)

KeptProbe(grain, filtered_grain) == filtered_grain

\* grains.push(grain): the unfiltered grain is the one kept.
KeptGrain(grain, filtered_grain) == grain

\* What the "Extract the grains" loop computes for each frame: the windowed
\* grain, the windowed probe and whether the filter keeps the grain.
WindowedGrains(audio, grain_frames, window) ==
    [i \in 1..Len(grain_frames) |->
        LET grain == ApplyWindow(AudioSlice(audio, grain_frames[i][1], grain_frames[i][2]), window)
            filtered_grain == ApplyWindow(FilteredSlice(audio, grain_frames[i][1], grain_frames[i][2]), window)
        IN  [grain |-> grain, filtered_grain |-> filtered_grain, kept |-> ~Rejected(filtered_grain)]]

\* The vector `grains` after the loop: the kept grains, in frame order.
RECURSIVE ExtractGrains(_, _)
ExtractGrains(trace, i) ==
    IF i > Len(trace) THEN <<>>
    ELSE (IF trace[i].kept THEN <<KeptGrain(trace[i].grain, trace[i].filtered_grain)>> ELSE <<>>)
         \o ExtractGrains(trace, i + 1)

\* energy: aus::analysis::energy(&grains[i]), read after grains[i] was
\* extended and level-adjusted in place.
EntryEnergy(grain, padded, adjusted) == energy(adjusted)

\* One pass of the "Analyze the grains" loop.  The spectral descriptors, the
\* pitch and the MIDI note are functions of the buffer handed to rfft and to
\* the pitch estimator: the entry records that buffer as `analysed`.
GrainEntryOf(file_name, grain_frames, grains, i, sample_rate, fft_size) ==
    LET padded == ZeroPad(grains[i], fft_size)
        adjusted == adjust_level(padded)
    IN  [file |-> file_name,
         start_frame |-> grain_frames[i][1],
         end_frame |-> grain_frames[i][2],
         sample_rate |-> sample_rate,
         grain_duration |-> <<sample_rate, FrameSize(grain_frames[i])>>,
         energy |-> EntryEnergy(grains[i], padded, adjusted),
         analysed |-> Runs(adjusted)]

\* The "Analyze the grains" loop from grain i on: one push per kept grain.
RECURSIVE AnalyzeFrom(_, _, _, _, _, _)
AnalyzeFrom(file_name, grain_frames, grains, i, sample_rate, fft_size) ==
    IF i > Len(grains) THEN <<>>
    ELSE <<GrainEntryOf(file_name, grain_frames, grains, i, sample_rate, fft_size)>>
         \o AnalyzeFrom(file_name, grain_frames, grains, i + 1, sample_rate, fft_size)

analyze_grains(file_name, audio, grain_frames, window_type, max_window_length, sample_rate, fft_size) ==
    IF VerifyTooLong(grain_frames, fft_size)
    THEN [status |-> "GrainTooLong", entries |-> <<>>]
    ELSE IF grain_frames = <<>> THEN [status |-> "Ok", entries |-> <<>>]
    ELSE LET w == Min(max_window_length, FrameSize(grain_frames[1]))
         IN  IF ExtractPanics(audio, grain_frames, w)
             THEN [status |-> "panic", entries |-> <<>>]
             ELSE LET window == generate_window(window_type, w)
                      grains == ExtractGrains(WindowedGrains(audio, grain_frames, window), 1)
                  IN  [status |-> "Ok",
                       entries |-> AnalyzeFrom(file_name, grain_frames, grains, 1,
                                               sample_rate, fft_size)]

\* ------------------------------------------------- state of one analysis

VARIABLES
    call,               \* the arguments of the call: audio (with the filter's output),
                        \* grain_size, grain_spacing, initial_offset, window_type,
                        \* max_window_length, fft_size, and `caller`: the frames come
                        \* from the caller, not from extract_grain_frames
    frames,             \* the frames handed to analyze_grains
    analysis,           \* what analyze_grains returned
    windowed,           \* per frame, what its "Extract the grains" loop computed
    db,                 \* a call of insert_grains on an empty table: the batch, the
                        \* rows of the table afterwards and the result
    gpc                 \* "input", "framed", "analysed", "stored"

gvars == <<call, frames, analysis, windowed, db, gpc>>

\* The state of a run of main.
VARIABLES
    pc,                 \* where main is
    max_num_threads,    \* config.max_num_threads
    grain_profiles,     \* config.grain_profiles
    audio_file_list,    \* what find_audio returned
    file_idx,           \* the next file of the submitting loop
    itask,              \* the ingestion tasks, one per file
    tx_alive,           \* main still holds the stage's original sender
    chan,               \* the messages in the stage's channel
    audio_chunks,       \* the chunk set
    prof_idx,           \* the profile being processed
    chunk_idx,          \* the next chunk of the submitting loop
    wtask,              \* per profile, its worker tasks in submission order
    sent_chunks,        \* every chunk an ingestion task sent (a bag)
    produced,           \* every batch a worker sent (a bag)
    handed,             \* every batch handed to insert_grains, with the outcome (a bag)
    store,              \* the rows of the grains table (a bag)
    failures,           \* how many insert_grains calls failed
    config_doc,         \* what config.json holds: a document, or nothing readable
    db_schema           \* the database file: "pending", "ready", "failed"

pvars == <<pc, max_num_threads, grain_profiles, audio_file_list, file_idx, itask,
           tx_alive, chan, audio_chunks, prof_idx, chunk_idx, wtask,
           sent_chunks, produced, handed, store, failures, config_doc, db_schema>>

\* The state of one loop run on its own, pass by pass.
VARIABLES
    seg,                \* the loop of extract_grain_frames
    fsearch,            \* the FFT size search of a worker task
    split               \* the splitting loop of an ingestion task

lvars == <<seg, fsearch, split>>

vars == <<gvars, pvars, lvars>>

\* Bounds of the inputs.
MaxLen == 7
MaxGrain == 3
MaxSpacing == 2
MaxOffset == 2
MaxWin == 5
MaxRun == 3
MaxCallLen == 3

SampleRates == {44100}
WindowTypes == {"Rectangular", "Hanning", "Hamming", "Bartlett"}
\* Filter outputs around the two thresholds (EpsB = 10, EpsA = 1000).
QuietLevels == {0, EpsB - 1, EpsB, EpsA - 1, EpsA}
LoudLevel == One \div 2

\* Sample i of the synthetic recordings: four levels, alternating in sign.
XRamp(i) == (IF i % 2 = 0 THEN 1 ELSE 0 - 1) * ((i % 4) + 1) * (One \div 4)

\* The filter's output over a recording: `lead` loud samples, r1 quiet ones,
\* one loud sample, r2 quiet ones, loud to the end.
ProbeAt(i, lead, quiet, r1, r2) ==
    IF i < lead THEN LoudLevel
    ELSE IF i < lead + r1 THEN quiet
    ELSE IF i = lead + r1 THEN LoudLevel
    ELSE IF i < lead + r1 + 1 + r2 THEN quiet
    ELSE LoudLevel

\* A recording of len samples, sample by sample.
RampSignal(len, lead, quiet, r1, r2) ==
    [k \in 1..len |-> [x |-> XRamp(k - 1), hp |-> ProbeAt(k - 1, lead, quiet, r1, r2), n |-> 1]]

\* A recording of len samples of constant amplitude, as five runs.
FlatSignal(len, lead, quiet, r1, r2) ==
    LET runs == <<[x |-> LoudLevel, hp |-> LoudLevel, n |-> lead],
                  [x |-> LoudLevel, hp |-> quiet, n |-> r1],
                  [x |-> LoudLevel, hp |-> LoudLevel, n |-> 1],
                  [x |-> LoudLevel, hp |-> quiet, n |-> r2],
                  [x |-> LoudLevel, hp |-> LoudLevel, n |-> len]>>
    IN  SigTake(SelectSeq(runs, LAMBDA r : r.n > 0), len)

Input(a, g, s, o, wt, mw, fft, c) ==
    [audio |-> a, grain_size |-> g, grain_spacing |-> s, initial_offset |-> o,
     window_type |-> wt, max_window_length |-> mw, fft_size |-> fft, caller |-> c]

\* Segmentation: every length, grain size, spacing and offset.
SegInputs ==
    { Input(RampSignal(len, 1, 0, 1, 0), g, s, o, "Rectangular", 0, 4, FALSE) :
        len \in 0..MaxLen, g \in 0..MaxGrain, s \in 1..MaxSpacing, o \in 0..MaxOffset }

\* Windowing: one grain, every taper and taper length.
WinInputs ==
    { Input(RampSignal(t[1] + 1, 1, t[4], 1, 0), t[1], 1, 0, t[2], t[3], 8, FALSE) :
        t \in (0..MaxGrain + 2) \X WindowTypes \X (0..MaxWin) \X QuietLevels }

\* The filter on one grain of 8 to 24 samples (runs of 1, 2 or 3).
MidGrains == {8, 15, 16, 17, 24}
MidInputs ==
    { Input(FlatSignal(t[1] + 1, t[2], t[3], t[4], t[5]), t[1], 1, 0, "Rectangular", 0, 32, FALSE) :
        t \in MidGrains \X (0..1) \X QuietLevels \X (0..MaxRun) \X (0..MaxRun) }

\* The filter on one grain long enough for len/8 to exceed 50.
LongGrains == {408, 415, 416}
LongRuns == {ZeroRunB - 1, ZeroRunB, ZeroRunB + 1, ZeroRunB + 2}
LongInputs ==
    { Input(FlatSignal(t[1] + 1, t[2], t[3], t[4], t[5]), t[1], 1, 0, "Rectangular", 0, 512, FALSE) :
        t \in LongGrains \X {0, 3} \X (QuietLevels \ {EpsA}) \X LongRuns \X {0, ZeroRunB - 1} }

\* Frames chosen by the caller of analyze_grains.
CallInputs ==
    { Input(RampSignal(t[1], t[2], 0, 1, 0), 0, 1, 0, t[3], t[4], t[5], TRUE) :
        t \in (1..MaxCallLen) \X {1, MaxCallLen + 1} \X {"Rectangular", "Hamming"}
              \X {0, 3} \X {2, 4} }

\* A recording whose first len samples the filter turns into silence, but
\* for one sample of amplitude 1.0 at position at (none when at = len).
ImpulseSignal(len, at) ==
    LET runs == <<[x |-> LoudLevel, hp |-> 0, n |-> at],
                  [x |-> LoudLevel, hp |-> One, n |-> IF at < len THEN 1 ELSE 0],
                  [x |-> LoudLevel, hp |-> 0, n |-> len - at - 1],
                  [x |-> LoudLevel, hp |-> LoudLevel, n |-> 1]>>
    IN  SelectSeq(runs, LAMBDA r : r.n > 0)

\* The filter on one grain of silence, with or without one sample of 1.0.
ImpulseGrains == {0, 1, 2, 7, 8, 15, 16, 17, 24}
ImpulseInputs ==
    { Input(ImpulseSignal(t[1], t[2]), t[1], 1, 0, "Rectangular", 0, 32, FALSE) :
        t \in { u \in ImpulseGrains \X (0..24) : u[2] <= u[1] } }

GrainInputs ==
    SegInputs \cup WinInputs \cup MidInputs \cup LongInputs \cup CallInputs \cup ImpulseInputs

\* The frames (a, b), a <= b, a caller may pass over a buffer of len samples
\* (one past the end included), at most two of them.
FramesOver(len) == { <<a, b>> : a \in 0..len + 1, b \in 0..len + 1 } \ { f \in (0..len + 1) \X (0..len + 1) : f[1] > f[2] }
FrameLists(len) ==
    {<<>>} \cup { <<f>> : f \in FramesOver(len) }
           \cup { <<f, h>> : f \in FramesOver(len), h \in FramesOver(len) }

NoAnalysis == [status |-> "none", entries |-> <<>>]
NoInsert == [batch |-> <<>>, rows |-> EmptyBag, result |-> "none"]

GrainInit ==
    /\ call \in GrainInputs
    /\ frames = <<>>
    /\ analysis = NoAnalysis
    /\ windowed = <<>>
    /\ db = NoInsert
    /\ gpc = "input"

\* The taper analyze_grains generates for the frames at hand.
CallWindow ==
    generate_window(call.window_type, Min(call.max_window_length, FrameSize(frames[1])))

\* let frames = extract_grain_frames(&chunk, grain_size, grain_spacing, offset);
ExtractFrames ==
    /\ gpc = "input"
    /\ ~call.caller
    /\ frames' = extract_grain_frames(call.audio, call.grain_size, call.grain_spacing, call.initial_offset)
    /\ gpc' = "framed"
    /\ UNCHANGED <<call, analysis, windowed, db, pvars, lvars>>

\* A caller builds the frames itself.
SupplyFrames ==
    /\ gpc = "input"
    /\ call.caller
    /\ \E fl \in FrameLists(SigLen(call.audio)) : frames' = fl
    /\ gpc' = "framed"
    /\ UNCHANGED <<call, analysis, windowed, db, pvars, lvars>>

\* analyze_grains(file, &chunk, frames, window_type, max_window_length, rate, fft_size)
AnalyzeGrains ==
    /\ gpc = "framed"
    /\ \E sr \in SampleRates :
        analysis' = analyze_grains("a.wav", call.audio, frames, call.window_type,
                                   call.max_window_length, sr, call.fft_size)
    /\ windowed' = IF analysis'.status = "Ok" /\ frames # <<>>
                   THEN WindowedGrains(call.audio, frames, CallWindow)
                   ELSE <<>>
    /\ gpc' = "analysed"
    /\ UNCHANGED <<call, frames, db, pvars, lvars>>

\* The rows insert_grains writes in its transaction: the energy filter.
RowsOf(grains) ==
    LET ok == SelectSeq(grains, LAMBDA e : e.energy # NaN /\ e.energy > 0)
    IN  IF ok = <<>> THEN EmptyBag
        ELSE [e \in { ok[k] : k \in 1..Len(ok) } |->
                 Cardinality({ k \in 1..Len(ok) : ok[k] = e })]

\* sqlite::insert_grains on a table holding `rows`.  The call commits its
\* rows and returns Ok ("ok"); or fails before the commit, at open, at
\* transaction, at an INSERT or at COMMIT, and the transaction is rolled back
\* ("rolled_back"); or commits and then fails closing the connection
\* ("close_failed").
InsertOutcomes == {"ok", "rolled_back", "close_failed"}
insert_grains(rows, grains, outcome) ==
    [rows |-> IF outcome = "rolled_back" THEN rows ELSE rows (+) RowsOf(grains),
     result |-> IF outcome = "ok" THEN "Ok" ELSE "Err"]

\* The batch of an analysis, as it is or with its first entry's energy 0.
Batches(entries) ==
    IF entries = <<>> THEN {entries} ELSE {entries, [entries EXCEPT ![1].energy = 0]}

\* insert_grains(db, &grains) on an empty table.
InsertGrains ==
    /\ gpc = "analysed"
    /\ analysis.status = "Ok"
    /\ \E batch \in Batches(analysis.entries), outcome \in InsertOutcomes :
          db' = [batch |-> batch,
                 rows |-> insert_grains(EmptyBag, batch, outcome).rows,
                 result |-> insert_grains(EmptyBag, batch, outcome).result]
    /\ gpc' = "stored"
    /\ UNCHANGED <<call, frames, analysis, windowed, pvars, lvars>>

GrainNext == ExtractFrames \/ SupplyFrames \/ AnalyzeGrains \/ InsertGrains

\* ================================================================ pipeline

\* main.rs: the chunk length limit (44100 * 120), the offset of the first
\* grain, the longest taper and the smallest FFT.
MAX_AUDIO_SIZE == 5292000
InitialOffset == 20000
MaxWindowLength == 5000
FftStart == 512

\* Bounds of the runs.
MaxThreads == 2
MaxFailures == 1

\* What aus::read and aus::mixdown yield for each file of the source
\* directory: c.wav cannot be decoded; b.wav and d.wav are longer than one
\* chunk, and the filter's output is loud all over d.wav.
FileInfo(name) ==
    IF name = "a.wav"
    THEN [ok |-> TRUE, sample_rate |-> 44100,
          samples |-> <<[x |-> LoudLevel, hp |-> LoudLevel, n |-> InitialOffset + 18]>>]
    ELSE IF name = "b.wav"
    THEN [ok |-> TRUE, sample_rate |-> 48000,
          samples |-> <<[x |-> LoudLevel, hp |-> 0, n |-> 1000000],
                        [x |-> LoudLevel, hp |-> LoudLevel, n |-> MAX_AUDIO_SIZE - 1000000],
                        [x |-> LoudLevel, hp |-> LoudLevel, n |-> InitialOffset + 4],
                        [x |-> LoudLevel \div 2, hp |-> LoudLevel, n |-> 14]>>]
    ELSE IF name = "d.wav"
    THEN [ok |-> TRUE, sample_rate |-> 44100,
          samples |-> <<[x |-> LoudLevel, hp |-> LoudLevel, n |-> MAX_AUDIO_SIZE],
                        [x |-> LoudLevel, hp |-> LoudLevel, n |-> InitialOffset + 4],
                        [x |-> LoudLevel \div 2, hp |-> LoudLevel, n |-> 14]>>]
    ELSE [ok |-> FALSE, sample_rate |-> 0, samples |-> <<>>]

FileLists == {<<>>, <<"a.wav", "b.wav">>, <<"c.wav", "a.wav">>, <<"d.wav">>}
ProfileLists ==
    {<<>>,
     <<[grain_size |-> 16, grain_spacing |-> 3000000]>>,
     <<[grain_size |-> 16, grain_spacing |-> 3000000],
       [grain_size |-> 17, grain_spacing |-> 3000000]>>,
     <<[grain_size |-> 16, grain_spacing |-> 0]>>}

\* What config.json may hold: nothing that parses, or a document.
Unreadable == [readable |-> FALSE, grain_profiles |-> <<>>, max_num_threads |-> 0]
ConfigDocs ==
    {Unreadable} \cup
    { [readable |-> TRUE, grain_profiles |-> pl, max_num_threads |-> n] :
        pl \in ProfileLists, n \in 0..MaxThreads }

\* io::read_config: the document as it is, whatever its profiles; the
\* default configuration when the file cannot be read or parsed.
read_config(doc) ==
    IF ~doc.readable
    THEN [grain_profiles |-> <<>>, max_num_threads |-> 0]
    ELSE [grain_profiles |-> doc.grain_profiles, max_num_threads |-> doc.max_num_threads]

\* -------------------------------------------------------------- ingestion

\* One slice of a decoded file as the message an ingestion task sends.
ChunkMessage(name, start_idx, end_idx) ==
    [file |-> name, sample_rate |-> FileInfo(name).sample_rate,
     samples |-> SigSlice(FileInfo(name).samples, start_idx, end_idx)]

\* usize::min(x.num_frames, start_idx + MAX_AUDIO_SIZE)
NextEnd(num_frames, start_idx) == Min(num_frames, start_idx + MAX_AUDIO_SIZE)

\* The chunks the splitting loop sends from start_idx on.
RECURSIVE ChunksFrom(_, _, _)
ChunksFrom(name, start_idx, end_idx) ==
    IF start_idx < SigLen(FileInfo(name).samples)
    THEN <<ChunkMessage(name, start_idx, end_idx)>>
         \o ChunksFrom(name, end_idx, NextEnd(SigLen(FileInfo(name).samples), end_idx))
    ELSE <<>>

\* The threads of a pool that are running a job.
Busy(tasks) == Cardinality({ t \in DOMAIN tasks : tasks[t].st \in {"running", "sending"} })

\* The pool's job queue is first in, first out: task t is the next job.
NextJob(tasks, t) ==
    /\ tasks[t].st = "queued"
    /\ \A u \in DOMAIN tasks : u < t => tasks[u].st # "queued"

\* The senders of a stage that are not dropped: the original and one clone
\* per submitted task that has not returned.
LiveSenders(tx, tasks) ==
    (IF tx THEN 1 ELSE 0) + Cardinality({ t \in DOMAIN tasks : tasks[t].st \in {"queued", "running", "sending"} })

KeepSender(tx) == tx

\* drop(tx)
DropSender(tx) == FALSE

IngestRecvOnEmpty(tx, tasks, ch) == ch = <<>>

\* `for val in rx` ends: the channel is empty and every sender is dropped.
IngestRecvDone(tx, tasks, ch) == ch = <<>> /\ LiveSenders(tx, tasks) = 0

ProfileRecvOnEmpty(tx, tasks, ch) == ch = <<>>

\* `for (file, grains) in rx` ends likewise.
ProfileRecvDone(tx, tasks, ch) == ch = <<>> /\ LiveSenders(tx, tasks) = 0

\* pool.join(): no job is queued or running.
Joined(tasks) == \A t \in DOMAIN tasks : tasks[t].st = "done"

\* ----------------------------------------------------------------- workers

\* let mut fft_size = 512; while fft_size < grain_size { fft_size *= 2; }
RECURSIVE FftSizeFrom(_, _)
FftSizeFrom(fft, size) ==
    IF fft < size THEN FftSizeFrom(fft * 2, size) ELSE fft

LastChunk(chunks, i) == chunks[Len(chunks)]

\* let chunk = chunk.2.clone(): the task owns a copy of its own chunk.
TaskChunk(chunks, i) == chunks[i]

\* The loop of extract_grain_frames never ends: a spacing of 0 leaves i where
\* it is while the condition holds.
LoopsForever(len, grain_size, grain_spacing, initial_offset) ==
    grain_spacing = 0 /\ GrainFits(initial_offset, grain_size, len)

\* The worker's call of extract_grain_frames returns.
Segments(chunk, profile) ==
    ~LoopsForever(SigLen(chunk.samples), profile.grain_size, profile.grain_spacing, InitialOffset)

\* The body of a worker task up to the match on analyze_grains' result.
Work(chunk, profile) ==
    analyze_grains(chunk.file, chunk.samples,
                   extract_grain_frames(chunk.samples, profile.grain_size,
                                        profile.grain_spacing, InitialOffset),
                   "Hanning", MaxWindowLength, chunk.sample_rate,
                   FftSizeFrom(FftStart, profile.grain_size))

\* Every chunk the files can be split into, and the worker's result for each
\* chunk and profile, computed once.
AllChunks ==
    UNION { { ChunksFrom(name, 0, NextEnd(SigLen(FileInfo(name).samples), 0))[k] :
                k \in 1..Len(ChunksFrom(name, 0, NextEnd(SigLen(FileInfo(name).samples), 0))) } :
            name \in {"a.wav", "b.wav", "d.wav"} }
AllProfiles == UNION { { pl[k] : k \in 1..Len(pl) } : pl \in ProfileLists }
WorkTable ==
    { [chunk |-> e[1], profile |-> e[2], result |-> Work(e[1], e[2])] :
        e \in { f \in AllChunks \X AllProfiles : Segments(f[1], f[2]) } }
WorkOf(chunk, profile) ==
    IF \E e \in WorkTable : e.chunk = chunk /\ e.profile = profile
    THEN (CHOOSE e \in WorkTable : e.chunk = chunk /\ e.profile = profile).result
    ELSE Work(chunk, profile)

\* ------------------------------------------------------------------ actions

GrainIdle ==
    /\ call = Input(<<>>, 0, 1, 0, "Rectangular", 0, 0, FALSE)
    /\ frames = <<>> /\ analysis = NoAnalysis /\ windowed = <<>> /\ db = NoInsert /\ gpc = "idle"

PipeInit ==
    /\ pc = "startup"
    /\ config_doc \in ConfigDocs
    /\ max_num_threads = read_config(config_doc).max_num_threads
    /\ grain_profiles = read_config(config_doc).grain_profiles
    /\ db_schema = "pending"
    /\ audio_file_list \in FileLists
    /\ file_idx = 1
    /\ itask = [i \in 1..Len(audio_file_list) |-> [st |-> "idle", start_idx |-> 0, end_idx |-> 0]]
    /\ tx_alive = TRUE
    /\ chan = <<>>
    /\ audio_chunks = <<>>
    /\ prof_idx = 1
    /\ chunk_idx = 1
    /\ wtask = [p \in 1..Len(grain_profiles) |-> <<>>]
    /\ sent_chunks = EmptyBag
    /\ produced = EmptyBag
    /\ handed = EmptyBag
    /\ store = EmptyBag
    /\ failures = 0

\* No loop is run on its own.
NoLoop == [pc |-> "idle"]
LoopIdle == seg = NoLoop /\ fsearch = NoLoop /\ split = NoLoop

Init == GrainIdle /\ PipeInit /\ LoopIdle

\* The analysis alone: main is not running.
PipeIdle ==
    /\ pc = "idle" /\ max_num_threads = 1 /\ grain_profiles = <<>> /\ audio_file_list = <<>>
    /\ file_idx = 1 /\ itask = <<>> /\ tx_alive = FALSE /\ chan = <<>> /\ audio_chunks = <<>>
    /\ prof_idx = 1 /\ chunk_idx = 1 /\ wtask = <<>> /\ sent_chunks = EmptyBag
    /\ produced = EmptyBag /\ handed = EmptyBag /\ store = EmptyBag /\ failures = 0
    /\ config_doc = Unreadable /\ db_schema = "pending"

GrainStart == GrainInit /\ PipeIdle /\ LoopIdle

SpecGrain == GrainStart /\ [][GrainNext]_vars

AfterSchemaContinues(outcome) == "ingest_spawn"

\* Err(err) => { println!(..); return; } after create_schema.
AfterSchema(outcome) == IF outcome = "failed" THEN "exit" ELSE "ingest_spawn"

\* main up to the first pool: the thread count and the schema.
Startup ==
    /\ pc = "startup"
    /\ IF max_num_threads < 1
       THEN max_num_threads' \in 1..MaxThreads
       ELSE max_num_threads' = max_num_threads
    /\ \E outcome \in {"exists", "created", "failed"} :
        /\ db_schema' = IF outcome = "failed" THEN "failed" ELSE "ready"
        /\ pc' = AfterSchema(outcome)
    /\ UNCHANGED <<gvars, lvars, config_doc, grain_profiles, audio_file_list, file_idx, itask, tx_alive, chan,
                   audio_chunks, prof_idx, chunk_idx, wtask, sent_chunks, produced,
                   handed, store, failures>>

\* for file in audio_file_list { let tx_clone = tx.clone(); pool.execute(..) }
SubmitFile ==
    /\ pc = "ingest_spawn"
    /\ file_idx <= Len(audio_file_list)
    /\ itask' = [itask EXCEPT ![file_idx].st = "queued"]
    /\ file_idx' = file_idx + 1
    /\ UNCHANGED <<gvars, lvars, config_doc, db_schema, pc, max_num_threads, grain_profiles, audio_file_list, tx_alive, chan,
                   audio_chunks, prof_idx, chunk_idx, wtask, sent_chunks, produced,
                   handed, store, failures>>

DropIngestSender ==
    /\ pc = "ingest_spawn"
    /\ file_idx > Len(audio_file_list)
    /\ tx_alive' = DropSender(tx_alive)
    /\ pc' = "ingest_recv"
    /\ UNCHANGED <<gvars, lvars, config_doc, db_schema, max_num_threads, grain_profiles, audio_file_list, file_idx, itask, chan,
                   audio_chunks, prof_idx, chunk_idx, wtask, sent_chunks, produced,
                   handed, store, failures>>

ReadFailedHangs == [st |-> "running", start_idx |-> 0, end_idx |-> 0]

\* Err(_) => (): the closure returns, and its sender is dropped.
ReadFailed == [st |-> "done", start_idx |-> 0, end_idx |-> 0]

\* A pool thread takes the job and decodes the file (aus::read, mixdown);
\* on a decode error the closure returns at once.
IngestRead(i) ==
    /\ NextJob(itask, i)
    /\ Busy(itask) < max_num_threads
    /\ itask' = [itask EXCEPT ![i] =
          IF FileInfo(audio_file_list[i]).ok
          THEN [st |-> "sending", start_idx |-> 0,
                end_idx |-> Min(SigLen(FileInfo(audio_file_list[i]).samples), MAX_AUDIO_SIZE)]
          ELSE ReadFailed]
    /\ UNCHANGED <<gvars, lvars, config_doc, db_schema, pc, max_num_threads, grain_profiles, audio_file_list, file_idx, tx_alive,
                   chan, audio_chunks, prof_idx, chunk_idx, wtask, sent_chunks, produced,
                   handed, store, failures>>

\* One pass of the splitting loop: send a chunk, advance.
IngestSend(i) ==
    /\ itask[i].st = "sending"
    /\ itask[i].start_idx < SigLen(FileInfo(audio_file_list[i]).samples)
    /\ LET msg == ChunkMessage(audio_file_list[i], itask[i].start_idx, itask[i].end_idx)
       IN  /\ chan' = Append(chan, msg)
           /\ sent_chunks' = sent_chunks (+) SetToBag({msg})
    /\ itask' = [itask EXCEPT ![i].start_idx = itask[i].end_idx,
                              ![i].end_idx = NextEnd(SigLen(FileInfo(audio_file_list[i]).samples),
                                                     itask[i].end_idx)]
    /\ UNCHANGED <<gvars, lvars, config_doc, db_schema, pc, max_num_threads, grain_profiles, audio_file_list, file_idx, tx_alive,
                   audio_chunks, prof_idx, chunk_idx, wtask, produced, handed, store, failures>>

\* The loop is over: the closure returns and its sender is dropped.
IngestFinish(i) ==
    /\ itask[i].st = "sending"
    /\ itask[i].start_idx >= SigLen(FileInfo(audio_file_list[i]).samples)
    /\ itask' = [itask EXCEPT ![i].st = "done"]
    /\ UNCHANGED <<gvars, lvars, config_doc, db_schema, pc, max_num_threads, grain_profiles, audio_file_list, file_idx, tx_alive,
                   chan, audio_chunks, prof_idx, chunk_idx, wtask, sent_chunks, produced,
                   handed, store, failures>>

\* for val in rx { audio_chunks.push(val); }
RecvChunk ==
    /\ pc = "ingest_recv"
    /\ chan # <<>>
    /\ audio_chunks' = Append(audio_chunks, Head(chan))
    /\ chan' = Tail(chan)
    /\ UNCHANGED <<gvars, lvars, config_doc, db_schema, pc, max_num_threads, grain_profiles, audio_file_list, file_idx, itask,
                   tx_alive, prof_idx, chunk_idx, wtask, sent_chunks, produced, handed,
                   store, failures>>

EndIngestRecv ==
    /\ pc = "ingest_recv"
    /\ IngestRecvDone(tx_alive, itask, chan)
    /\ pc' = "ingest_join"
    /\ UNCHANGED <<gvars, lvars, config_doc, db_schema, max_num_threads, grain_profiles, audio_file_list, file_idx, itask, tx_alive,
                   chan, audio_chunks, prof_idx, chunk_idx, wtask, sent_chunks, produced,
                   handed, store, failures>>

\* pool.join(), then the first pass of `for grain_spec in ...`.
JoinIngest ==
    /\ pc = "ingest_join"
    /\ Joined(itask)
    /\ pc' = "profile_next"
    /\ UNCHANGED <<gvars, lvars, config_doc, db_schema, max_num_threads, grain_profiles, audio_file_list, file_idx, itask, tx_alive,
                   chan, audio_chunks, prof_idx, chunk_idx, wtask, sent_chunks, produced,
                   handed, store, failures>>

\* The head of the profile loop: a new pool and channel, or "Done".
NextProfile ==
    /\ pc = "profile_next"
    /\ IF prof_idx <= Len(grain_profiles)
       THEN /\ pc' = "profile_spawn"
            /\ chunk_idx' = 1
            /\ tx_alive' = TRUE
            /\ chan' = <<>>
       ELSE /\ pc' = "done"
            /\ UNCHANGED <<chunk_idx, tx_alive, chan>>
    /\ UNCHANGED <<gvars, lvars, config_doc, db_schema, max_num_threads, grain_profiles, audio_file_list, file_idx, itask,
                   audio_chunks, prof_idx, wtask, sent_chunks, produced, handed, store,
                   failures>>

\* for chunk in audio_chunks.iter() { clone; tx.clone(); pool.execute(..) }
SubmitChunk ==
    /\ pc = "profile_spawn"
    /\ chunk_idx <= Len(audio_chunks)
    /\ wtask' = [wtask EXCEPT ![prof_idx] =
          Append(@, [st |-> "queued", chunk |-> TaskChunk(audio_chunks, chunk_idx)])]
    /\ chunk_idx' = chunk_idx + 1
    /\ UNCHANGED <<gvars, lvars, config_doc, db_schema, pc, max_num_threads, grain_profiles, audio_file_list, file_idx, itask,
                   tx_alive, chan, audio_chunks, prof_idx, sent_chunks, produced, handed,
                   store, failures>>

DropProfileSender ==
    /\ pc = "profile_spawn"
    /\ chunk_idx > Len(audio_chunks)
    /\ tx_alive' = DropSender(tx_alive)
    /\ pc' = "profile_recv"
    /\ UNCHANGED <<gvars, lvars, config_doc, db_schema, max_num_threads, grain_profiles, audio_file_list, file_idx, itask, chan,
                   audio_chunks, prof_idx, chunk_idx, wtask, sent_chunks, produced, handed,
                   store, failures>>

\* A pool thread takes the job.
WorkerStart(t) ==
    /\ pc \in {"profile_spawn", "profile_recv", "profile_join"}
    /\ t \in DOMAIN wtask[prof_idx]
    /\ NextJob(wtask[prof_idx], t)
    /\ Busy(wtask[prof_idx]) < max_num_threads
    /\ wtask' = [wtask EXCEPT ![prof_idx][t].st = "running"]
    /\ UNCHANGED <<gvars, lvars, config_doc, db_schema, pc, max_num_threads, grain_profiles, audio_file_list, file_idx, itask,
                   tx_alive, chan, audio_chunks, prof_idx, chunk_idx, sent_chunks, produced,
                   handed, store, failures>>

BatchMessageEmpty(chunk, result) == [file |-> chunk.file, grains |-> <<>>]

\* tx_clone.send((chunk_name.clone(), grains)): the batch as it is sent,
\* tagged with the name of the chunk's file.
BatchMessage(chunk, result) == [file |-> chunk.file, grains |-> result.entries]

\* The task segments and analyses its chunk and sends the batch; an analysis
\* error is printed and nothing is sent.  A task whose segmentation loop
\* never ends stays where it is.
WorkerRun(t) ==
    /\ pc \in {"profile_spawn", "profile_recv", "profile_join"}
    /\ t \in DOMAIN wtask[prof_idx]
    /\ wtask[prof_idx][t].st = "running"
    /\ Segments(wtask[prof_idx][t].chunk, grain_profiles[prof_idx])
    /\ LET chunk == wtask[prof_idx][t].chunk
           res == WorkOf(chunk, grain_profiles[prof_idx])
           msg == BatchMessage(chunk, res)
       IN  IF res.status = "Ok"
           THEN /\ chan' = Append(chan, msg)
                /\ produced' = produced (+) SetToBag({[profile |-> prof_idx, file |-> msg.file,
                                                      grains |-> msg.grains]})
           ELSE UNCHANGED <<chan, produced>>
    /\ wtask' = [wtask EXCEPT ![prof_idx][t].st = "sending"]
    /\ UNCHANGED <<gvars, lvars, config_doc, db_schema, pc, max_num_threads, grain_profiles, audio_file_list, file_idx, itask,
                   tx_alive, audio_chunks, prof_idx, chunk_idx, sent_chunks, handed, store,
                   failures>>

\* The closure returns: its sender is dropped and the thread is free.
WorkerFinish(t) ==
    /\ pc \in {"profile_spawn", "profile_recv", "profile_join"}
    /\ t \in DOMAIN wtask[prof_idx]
    /\ wtask[prof_idx][t].st = "sending"
    /\ wtask' = [wtask EXCEPT ![prof_idx][t].st = "done"]
    /\ UNCHANGED <<gvars, lvars, config_doc, db_schema, pc, max_num_threads, grain_profiles, audio_file_list, file_idx, itask,
                   tx_alive, chan, audio_chunks, prof_idx, chunk_idx, sent_chunks, produced,
                   handed, store, failures>>

AfterInsertStops(result) == IF result = "Err" THEN "done" ELSE "profile_recv"

\* Ok(_) => println!(..), Err(err) => println!(..): either way the loop goes
\* on to the next message.
AfterInsert(result) == "profile_recv"

\* One pass of `for (file, grains) in rx`: insert_grains on the batch.  The
\* call commits the rows and returns Ok, fails before the commit, or fails
\* closing the connection after the commit.
RecvBatch ==
    /\ pc = "profile_recv"
    /\ chan # <<>>
    /\ \E outcome \in InsertOutcomes :
        LET res == insert_grains(store, Head(chan).grains, outcome)
        IN  /\ outcome # "ok" => failures < MaxFailures
            /\ failures' = IF res.result = "Ok" THEN failures ELSE failures + 1
            /\ store' = res.rows
            /\ handed' = handed (+) SetToBag({[profile |-> prof_idx, file |-> Head(chan).file,
                                              grains |-> Head(chan).grains,
                                              result |-> res.result]})
            /\ pc' = AfterInsert(res.result)
    /\ chan' = Tail(chan)
    /\ UNCHANGED <<gvars, lvars, config_doc, db_schema, max_num_threads, grain_profiles, audio_file_list, file_idx, itask,
                   tx_alive, audio_chunks, prof_idx, chunk_idx, wtask, sent_chunks, produced>>

EndProfileRecv ==
    /\ pc = "profile_recv"
    /\ ProfileRecvDone(tx_alive, wtask[prof_idx], chan)
    /\ pc' = "profile_join"
    /\ UNCHANGED <<gvars, lvars, config_doc, db_schema, max_num_threads, grain_profiles, audio_file_list, file_idx, itask, tx_alive,
                   chan, audio_chunks, prof_idx, chunk_idx, wtask, sent_chunks, produced,
                   handed, store, failures>>

\* pool.join() at the end of the profile's pass.
JoinProfile ==
    /\ pc = "profile_join"
    /\ Joined(wtask[prof_idx])
    /\ prof_idx' = prof_idx + 1
    /\ pc' = "profile_next"
    /\ UNCHANGED <<gvars, lvars, config_doc, db_schema, max_num_threads, grain_profiles, audio_file_list, file_idx, itask, tx_alive,
                   chan, audio_chunks, chunk_idx, wtask, sent_chunks, produced, handed, store,
                   failures>>

Next ==
    \/ Startup
    \/ SubmitFile
    \/ DropIngestSender
    \/ \E i \in DOMAIN itask : IngestRead(i)
    \/ \E i \in DOMAIN itask : IngestSend(i)
    \/ \E i \in DOMAIN itask : IngestFinish(i)
    \/ RecvChunk
    \/ EndIngestRecv
    \/ JoinIngest
    \/ NextProfile
    \/ SubmitChunk
    \/ DropProfileSender
    \/ \E t \in 1..Len(audio_chunks) : WorkerStart(t)
    \/ \E t \in 1..Len(audio_chunks) : WorkerRun(t)
    \/ \E t \in 1..Len(audio_chunks) : WorkerFinish(t)
    \/ RecvBatch
    \/ EndProfileRecv
    \/ JoinProfile

Spec == Init /\ [][Next]_vars

\* Every thread that can take a step eventually takes one.
FairSpec == Spec /\ WF_vars(Next)

\* =================================================== the loops, pass by pass

\* Bounds of the loops' inputs; MaxPushes and MaxSends bound the passes of a
\* loop that never ends.
MaxChunk == 3
MaxPushes == 10
MaxSends == 10

\* x.samples[0][lo..hi].to_vec()
VecSlice(samples, lo, hi) == SubSeq(samples, lo + 1, hi)

SplitEndShort(num_frames, start_idx, max_audio_size) ==
    Min(num_frames, start_idx + max_audio_size - 1)

\* usize::min(x.num_frames, start_idx + max_audio_size)
SplitEnd(num_frames, start_idx, max_audio_size) ==
    Min(num_frames, start_idx + max_audio_size)

\* A decoded file of n samples, each its own value, about to be split into
\* chunks of at most m samples: start_idx = 0, end_idx = min(num_frames, m).
SplitStart ==
    /\ \E n \in 0..MaxLen, m \in 0..MaxChunk :
          split = [samples |-> [k \in 1..n |-> k], max_audio_size |-> m,
                   start_idx |-> 0, end_idx |-> Min(n, m), sent |-> <<>>, pc |-> "loop"]
    /\ seg = NoLoop /\ fsearch = NoLoop

\* One pass of `while start_idx < x.num_frames`: send the slice, advance.
SplitSend ==
    /\ split.pc = "loop"
    /\ split.start_idx < Len(split.samples)
    /\ Len(split.sent) < MaxSends
    /\ split' = [split EXCEPT
          !.sent = Append(@, VecSlice(split.samples, split.start_idx, split.end_idx)),
          !.start_idx = split.end_idx,
          !.end_idx = SplitEnd(Len(split.samples), split.end_idx, split.max_audio_size)]
    /\ UNCHANGED <<gvars, pvars, seg, fsearch>>

SplitReturn ==
    /\ split.pc = "loop"
    /\ split.start_idx >= Len(split.samples)
    /\ split' = [split EXCEPT !.pc = "returned"]
    /\ UNCHANGED <<gvars, pvars, seg, fsearch>>

SegFrameLong(i, grain_size) == <<i, i + grain_size + 1>>

\* grains.push((i, i + grain_size))
SegFrame(i, grain_size) == <<i, i + grain_size>>

SegStay(i, grain_spacing) == i

\* i += grain_spacing
SegAdvance(i, grain_spacing) == i + grain_spacing

\* extract_grain_frames on a buffer of len samples: i = initial_offset.
SegStart ==
    /\ \E len \in 0..MaxLen, g \in 0..MaxGrain, s \in 0..MaxSpacing, o \in 0..MaxOffset :
          seg = [len |-> len, grain_size |-> g, grain_spacing |-> s, initial_offset |-> o,
                 i |-> o, grains |-> <<>>, pc |-> "loop"]
    /\ fsearch = NoLoop /\ split = NoLoop

\* One pass of `while i + grain_size < audio.len()`.
SegPush ==
    /\ seg.pc = "loop"
    /\ GrainFits(seg.i, seg.grain_size, seg.len)
    /\ Len(seg.grains) < MaxPushes
    /\ seg' = [seg EXCEPT !.grains = Append(@, SegFrame(seg.i, seg.grain_size)),
                          !.i = SegAdvance(seg.i, seg.grain_spacing)]
    /\ UNCHANGED <<gvars, pvars, fsearch, split>>

SegReturn ==
    /\ seg.pc = "loop"
    /\ ~GrainFits(seg.i, seg.grain_size, seg.len)
    /\ seg' = [seg EXCEPT !.pc = "returned"]
    /\ UNCHANGED <<gvars, pvars, fsearch, split>>

\* The grain sizes of a profile around the powers of two from 512 on.
FftGrainSizes ==
    {0, 1, 16, 511, 512, 513, 1000, 1023, 1024, 1025, 2047, 2048, 2049, 4096, 4097, 5000,
     8192, 8193, 44100, 65536, 65537}

FftStepBy512(fft_size) == fft_size + 512

\* fft_size *= 2
FftStep(fft_size) == fft_size * 2

\* let mut fft_size: usize = 512;
FftSearchStart ==
    /\ \E g \in FftGrainSizes : fsearch = [grain_size |-> g, fft_size |-> FftStart, pc |-> "loop"]
    /\ seg = NoLoop /\ split = NoLoop

\* One pass of `while fft_size < grain_size`.
FftDouble ==
    /\ fsearch.pc = "loop"
    /\ fsearch.fft_size < fsearch.grain_size
    /\ fsearch' = [fsearch EXCEPT !.fft_size = FftStep(@)]
    /\ UNCHANGED <<gvars, pvars, seg, split>>

\* The loop is over: fft_size is what analyze_grains is called with.
FftFound ==
    /\ fsearch.pc = "loop"
    /\ ~(fsearch.fft_size < fsearch.grain_size)
    /\ fsearch' = [fsearch EXCEPT !.pc = "found"]
    /\ UNCHANGED <<gvars, pvars, seg, split>>

LoopStart == GrainIdle /\ PipeIdle /\ (SplitStart \/ SegStart \/ FftSearchStart)

LoopNext == SplitSend \/ SplitReturn \/ SegPush \/ SegReturn \/ FftDouble \/ FftFound

\* Every loop that can make a pass makes it.
SpecLoops == LoopStart /\ [][LoopNext]_vars /\ WF_vars(LoopNext)

\* ================================================================= claims

\* The frames are those of extract_grain_frames and analyze_grains returned Ok.
Extracted == gpc # "input" /\ ~call.caller
AnalysedOk == gpc = "analysed" /\ analysis.status = "Ok"

\* The indices of the frames the filter kept, in frame order.
KeptIndices ==
    SelectSeq([i \in 1..Len(windowed) |-> i], LAMBDA i : windowed[i].kept)

\* The probe holds a run of near-zero samples (at least one sample, and at
\* least run_len of them).
HasQuietRun(probe, run_len, eps) ==
    LET m == IF run_len < 1 THEN 1 ELSE run_len
    IN  \E lo \in 1..(Len(probe) - m + 1) :
            \A j \in lo..(lo + m - 1) : probe[j] # NaN /\ Abs(probe[j]) < eps

\* Sample k (0-based) of a grain of n samples after a taper of w <= n
\* coefficients, as the two index ranges of the windowing rule give it.
TaperedSample(orig, window, k) ==
    LET n == Len(orig)
        w == Len(window)
        tail == n - (w - w \div 2)
    IN  IF k < w \div 2 THEN Mul(orig[k + 1], window[k + 1])
        ELSE IF k >= tail THEN Mul(orig[k + 1], window[(k - tail) + w \div 2 + 1])
        ELSE orig[k + 1]

\* C1: extract_grain_frames returns exactly the frames (i, i + g) for
\* i = o, o + s, o + 2s, ... with i + g < L, in increasing order of i; none
\* when L - o <= g, and never a frame whose end is L.
C1_ExactFrames ==
    Extracted =>
        LET L == SigLen(call.audio)
            starts == { i \in 0..L : /\ i >= call.initial_offset
                                     /\ (i - call.initial_offset) % call.grain_spacing = 0
                                     /\ i + call.grain_size < L }
        IN  /\ { frames[k] : k \in 1..Len(frames) }
                 = { <<i, i + call.grain_size>> : i \in starts }
            /\ Len(frames) = Cardinality(starts)
            /\ \A k \in 1..(Len(frames) - 1) : frames[k][1] < frames[k + 1][1]
            /\ (L - call.initial_offset <= call.grain_size => frames = <<>>)
            /\ \A k \in 1..Len(frames) : frames[k][2] # L

\* C1 witness: several frames were emitted and the next start, whose grain
\* would end exactly at L, was not.
C1_Witness ==
    /\ Extracted
    /\ Len(frames) >= 2
    /\ call.grain_spacing >= 2
    /\ frames[Len(frames)][1] + call.grain_spacing + call.grain_size = SigLen(call.audio)

C3_HeadTailTaper ==
    AnalysedOk =>
        \A i \in 1..Len(windowed) :
            LET lo == frames[i][1]
                hi == frames[i][2]
                orig == AudioSlice(call.audio, lo, hi)
                probe == FilteredSlice(call.audio, lo, hi)
            IN  Len(CallWindow) <= hi - lo =>
                    /\ Len(windowed[i].grain) = hi - lo
                    /\ Len(windowed[i].filtered_grain) = hi - lo
                    /\ \A k \in 0..(hi - lo - 1) :
                        /\ windowed[i].grain[k + 1] = TaperedSample(orig, CallWindow, k)
                        /\ windowed[i].filtered_grain[k + 1] = TaperedSample(probe, CallWindow, k)

\* C3 witness: a taper of odd length, at least 3, on a longer grain, whose
\* head, middle and tail samples all show.
C3_Witness ==
    /\ AnalysedOk
    /\ Len(windowed) >= 1
    /\ call.window_type = "Hamming"
    /\ Len(CallWindow) >= 3
    /\ Len(CallWindow) % 2 = 1
    /\ Len(windowed[1].grain) > Len(CallWindow) + 1
    /\ windowed[1].grain[1] # AudioSlice(call.audio, frames[1][1], frames[1][2])[1]
    /\ windowed[1].grain[Len(windowed[1].grain)] # SigAt(call.audio, frames[1][2] - 1).x

\* C4: a frame longer than fft_size anywhere in the list makes the call
\* return GrainTooLong and no entry.
C4_TooLongFailsBatch ==
    (gpc = "analysed" /\ \E i \in 1..Len(frames) :
                             frames[i][2] - frames[i][1] > call.fft_size)
        => analysis.status = "GrainTooLong" /\ analysis.entries = <<>>

\* C4 witness: the first frame fits, lies in the buffer and passes the
\* filter; only the second one is too long.
C4_Witness ==
    /\ gpc = "analysed"
    /\ Len(frames) = 2
    /\ call.max_window_length = 0
    /\ frames[1][2] - frames[1][1] <= call.fft_size
    /\ frames[1][2] <= SigLen(call.audio)
    /\ ~HasQuietRun(FilteredSlice(call.audio, frames[1][1], frames[1][2]), 0, 1000)
    /\ frames[2][2] - frames[2][1] > call.fft_size
    /\ analysis.status = "GrainTooLong"

\* C5: one entry per kept grain, in frame order, none for a rejected grain,
\* and what is analysed is the windowed unfiltered grain (zero-padded and
\* level-adjusted), not the probe.
C5_EntriesAreKeptGrains ==
    AnalysedOk =>
        /\ Len(analysis.entries) = Len(KeptIndices)
        /\ \A k \in 1..Len(KeptIndices) :
              analysis.entries[k].analysed
                  = Runs(adjust_level(ZeroPad(windowed[KeptIndices[k]].grain, call.fft_size)))

\* C5 witness: a rejected grain precedes a kept one, and the kept grain's
\* probe would have been analysed differently.
C5_Witness ==
    /\ AnalysedOk
    /\ Len(windowed) >= 3
    /\ ~windowed[1].kept
    /\ windowed[3].kept
    /\ Len(analysis.entries) >= 1
    /\ \A k \in 1..Len(KeptIndices) :
          analysis.entries[k].analysed
              # Runs(adjust_level(ZeroPad(windowed[KeptIndices[k]].filtered_grain, call.fft_size)))

\* C6 as stated: the energy of an entry is that of the windowed grain before
\* zero-padding and before the level adjustment.
C6_EnergyBeforeAdjust ==
    AnalysedOk =>
        \A k \in 1..Len(analysis.entries) :
            k <= Len(KeptIndices) =>
                analysis.entries[k].energy = energy(windowed[KeptIndices[k]].grain)

\* C6, what analyze_grains computes: the energy of an entry is that of the
\* grain after it was
\* zero-padded to fft_size and level-adjusted to -6 dB.
C6_EnergyAfterAdjust ==
    AnalysedOk =>
        \A k \in 1..Len(analysis.entries) :
            k <= Len(KeptIndices) =>
                analysis.entries[k].energy
                    = energy(adjust_level(ZeroPad(windowed[KeptIndices[k]].grain, call.fft_size)))

\* C6 witness: an entry whose grain has another energy before the adjustment.
C6_Witness ==
    /\ AnalysedOk
    /\ Len(analysis.entries) >= 1
    /\ Len(KeptIndices) >= 1
    /\ analysis.entries[1].energy # NaN
    /\ analysis.entries[1].energy # energy(windowed[KeptIndices[1]].grain)
    /\ Len(windowed[KeptIndices[1]].grain) < call.fft_size

\* ------------------------------------------------------------ the pipeline

\* A task a pool thread has taken.
Started(task) == task.st \in {"running", "sending", "done"}

\* The batches the workers of profile p sent.
BatchesOf(p) == { b \in BagToSet(produced) : b.profile = p }

\* How many times batch b was handed to insert_grains, whatever the outcome.
HandedCopies(b) ==
    CopiesIn([profile |-> b.profile, file |-> b.file, grains |-> b.grains, result |-> "Ok"], handed)
    + CopiesIn([profile |-> b.profile, file |-> b.file, grains |-> b.grains, result |-> "Err"], handed)

\* A sequence of chunks as a bag.
ChunkBag(chunks) ==
    IF chunks = <<>> THEN EmptyBag
    ELSE [c \in { chunks[k] : k \in 1..Len(chunks) } |->
             Cardinality({ k \in 1..Len(chunks) : chunks[k] = c })]

\* The entries of a sequence of batches' worth of grains.
EntrySet(grains) == { grains[k] : k \in 1..Len(grains) }

\* Every GrainEntry handed to insert_grains so far.
HandedEntries == UNION { EntrySet(b.grains) : b \in BagToSet(handed) }

\* What the files and the profiles determine: every entry of every chunk of
\* every decodable file, under every profile.
ExpectedEntries ==
    UNION { UNION { UNION { EntrySet(WorkOf(c, grain_profiles[p]).entries) :
                            c \in EntrySet(ChunksFrom(audio_file_list[f], 0,
                                     NextEnd(SigLen(FileInfo(audio_file_list[f]).samples), 0))) } :
                    f \in { g \in 1..Len(audio_file_list) : FileInfo(audio_file_list[g]).ok } } :
            p \in 1..Len(grain_profiles) }

\* C7: profiles never execute concurrently: when a worker task of a later
\* profile has started, every worker task of each earlier profile has been
\* submitted and has finished, and every batch the earlier profile produced
\* has been handed to insert_grains.
C7_ProfilesInTurn ==
    \A p \in DOMAIN wtask, q \in DOMAIN wtask :
        (p < q /\ \E t \in DOMAIN wtask[q] : Started(wtask[q][t]))
        => /\ Len(wtask[p]) = Len(audio_chunks)
           /\ \A t \in DOMAIN wtask[p] : wtask[p][t].st = "done"
           /\ \A b \in BatchesOf(p) : HandedCopies(b) = CopiesIn(b, produced)

\* C7 witness: a worker of the second profile is running after the first
\* profile's three tasks produced their batches on a pool of two threads.
C7_Witness ==
    /\ max_num_threads = 2
    /\ Len(grain_profiles) = 2
    /\ Len(wtask[1]) = 3
    /\ BatchesOf(1) # {}
    /\ \E t \in DOMAIN wtask[2] : wtask[2][t].st = "running"

\* C8: no profile begins before ingestion is complete: once main is past the
\* ingestion stage (and whenever a worker task exists), every ingestion task
\* has finished and the chunk set holds exactly the chunks the tasks sent.
C8_IngestionComplete ==
    (\/ pc \in {"profile_next", "profile_spawn", "profile_recv", "profile_join", "done"}
     \/ \E p \in DOMAIN wtask : wtask[p] # <<>>)
    => /\ \A i \in DOMAIN itask : itask[i].st = "done"
       /\ ChunkBag(audio_chunks) = sent_chunks

\* C8 witness: the first profile is submitting its tasks over three chunks
\* of which the second file's arrived first.
C8_Witness ==
    /\ pc = "profile_spawn"
    /\ prof_idx = 1
    /\ wtask[1] # <<>>
    /\ Len(audio_chunks) = 3
    /\ audio_chunks[1].file = "b.wav"
    /\ audio_file_list[1] = "a.wav"

\* C9: at the end of the run the set of GrainEntry values handed to storage
\* is the one the files and the profiles determine, for every interleaving
\* of the tasks and every pool size.
C9_SameEntrySet == pc = "done" => HandedEntries = ExpectedEntries

\* C9 witness: a run on two threads ended after the chunks arrived in
\* another order than the files were submitted, with several entries handed.
C9_Witness ==
    /\ pc = "done"
    /\ max_num_threads = 2
    /\ Len(grain_profiles) = 2
    /\ Len(audio_chunks) = 3
    /\ audio_chunks[1].file = "b.wav"
    /\ audio_chunks[2].file = "a.wav"
    /\ Cardinality(HandedEntries) >= 4

\* Every profile of the configuration has a spacing of at least 1.
SpacingOk == \A k \in DOMAIN grain_profiles : grain_profiles[k].grain_spacing >= 1

\* C10: with every thread scheduled, each stage's receive loop ends once all
\* the senders of its stage are dropped, and a run that started its
\* ingestion stage with profiles of spacing >= 1 reaches "Done".
C10_ReachesDone ==
    /\ (pc = "ingest_spawn" /\ SpacingOk) ~> (pc = "done")
    /\ (pc = "ingest_recv" /\ LiveSenders(tx_alive, itask) = 0) ~> (pc = "ingest_join")
    /\ (pc = "profile_recv" /\ LiveSenders(tx_alive, wtask[prof_idx]) = 0) ~> (pc = "profile_join")

\* C10 witness: the run is done after two profiles over three chunks, one of
\* whose batches insert_grains failed on.
C10_Witness ==
    /\ pc = "done"
    /\ Len(grain_profiles) = 2
    /\ Len(audio_chunks) = 3
    /\ failures = 1
    /\ \A p \in DOMAIN wtask : Len(wtask[p]) = 3

\* C11: a profile whose grain_spacing is 0 is rejected when the
\* configuration is loaded: no worker task ever starts segmenting its chunk
\* with a spacing of 0.
C11_ZeroSpacingRejected ==
    \A p \in DOMAIN wtask : \A t \in DOMAIN wtask[p] :
        Started(wtask[p][t]) => grain_profiles[p].grain_spacing >= 1

\* C11 witness: the configuration was read from a document, and a worker
\* task is in a segmentation loop that never ends.
C11_Witness ==
    /\ config_doc.readable
    /\ pc = "profile_recv"
    /\ \E t \in DOMAIN wtask[prof_idx] :
          /\ wtask[prof_idx][t].st = "running"
          /\ grain_profiles[prof_idx].grain_spacing = 0
          /\ ~Segments(wtask[prof_idx][t].chunk, grain_profiles[prof_idx])

\* The chunks of a sequence, one after the other.
RECURSIVE Concat(_)
Concat(chunks) == IF chunks = <<>> THEN <<>> ELSE Head(chunks) \o Concat(Tail(chunks))

\* C12: with a maximum chunk size m >= 1, the splitting loop emits the
\* slices [0, m), [m, 2m), ... of the file's n samples, in order, the last
\* one ending at n: every chunk has 0 < len <= m, the chunks sent so far make
\* up the samples before start_idx, all of them once the loop is over, and a
\* file of no sample yields no chunk.
C12_ContiguousChunks ==
    (split.pc # "idle" /\ split.max_audio_size >= 1) =>
        LET n == Len(split.samples)
            m == split.max_audio_size
        IN  /\ \A k \in 1..Len(split.sent) :
                  /\ 0 < Len(split.sent[k]) /\ Len(split.sent[k]) <= m
                  /\ split.sent[k] = SubSeq(split.samples, (k - 1) * m + 1, Min(n, k * m))
            /\ Concat(split.sent) = SubSeq(split.samples, 1, split.start_idx)
            /\ split.pc = "returned" => Concat(split.sent) = split.samples
            /\ n = 0 => split.sent = <<>>

\* C12 witness: a file of 7 samples was split into chunks of 3, 3 and 1.
C12_Witness ==
    /\ split.pc = "returned"
    /\ split.max_audio_size = 3
    /\ Len(split.sent) = 3
    /\ Len(split.sent[3]) = 1

\* The chunks of the chunk set that carry a file's name, in the set's order.
ChunksOfFile(name) == SelectSeq(audio_chunks, LAMBDA c : c.file = name)

\* The chunks a file is split into when nothing else is read.
OwnChunks(name) == ChunksFrom(name, 0, NextEnd(SigLen(FileInfo(name).samples), 0))

\* C13: a file that cannot be decoded contributes no chunk, every other file
\* contributes exactly its own chunks, and the ingestion stage completes.
C13_DecodeFailureSkipsFile ==
    /\ [](pc \in {"ingest_join", "profile_next", "profile_spawn", "profile_recv",
                  "profile_join", "done"}
          => \A f \in DOMAIN audio_file_list :
                ChunksOfFile(audio_file_list[f])
                    = IF FileInfo(audio_file_list[f]).ok
                      THEN OwnChunks(audio_file_list[f])
                      ELSE <<>>)
    /\ (pc = "ingest_spawn") ~> (pc = "profile_next")

\* C13 witness: on one thread, the first file failed to decode and the
\* second file's chunk is the whole chunk set of the finished stage.
C13_Witness ==
    /\ pc = "profile_next"
    /\ max_num_threads = 1
    /\ Len(audio_file_list) = 2
    /\ ~FileInfo(audio_file_list[1]).ok
    /\ itask[1].st = "done"
    /\ Len(audio_chunks) = 1
    /\ audio_chunks[1].file = audio_file_list[2]

\* C14: a failing insert_grains does not stop the collector: at the end of
\* the run every profile has run one task per chunk of the chunk set, and
\* every batch a worker sent, the failed one included, was handed to
\* insert_grains exactly once.
C14_CollectorContinues ==
    pc = "done" =>
        \A p \in DOMAIN wtask :
            /\ Len(wtask[p]) = Len(audio_chunks)
            /\ \A t \in DOMAIN wtask[p] : wtask[p][t].st = "done"
            /\ \A b \in BatchesOf(p) : HandedCopies(b) = CopiesIn(b, produced)

\* C14 witness: insert_grains failed on a batch of the first of two
\* profiles, and all six batches of the three chunks were handed over.
C14_Witness ==
    /\ pc = "done"
    /\ Len(grain_profiles) = 2
    /\ failures = 1
    /\ \E b \in BagToSet(handed) : b.result = "Err" /\ b.profile = 1
    /\ BagCardinality(handed) = 6
    /\ BagCardinality(produced) = 6

\* C15 as stated: a run ends before ingestion only when the configuration
\* could not be read, such a failure does end it, and a failure to create
\* the schema does not.
C15_OnlyConfigFailureEnds ==
    /\ pc = "exit" => ~config_doc.readable
    /\ ~config_doc.readable => pc \in {"startup", "exit"}
    /\ db_schema = "failed" => pc # "exit"

\* C15, what main does: the run ends before ingestion exactly when the
\* schema cannot be created; a configuration that cannot be read is replaced
\* by the default one, which has no profile, and the run goes on; and once
\* ingestion has started, decode and insert failures or not, the run goes on
\* to "Done" (the profiles' spacing being at least 1).
C15_OnlySchemaFailureEnds ==
    /\ [](pc = "exit" <=> db_schema = "failed")
    /\ [](~config_doc.readable => grain_profiles = <<>>)
    /\ (pc = "startup" /\ ~config_doc.readable) ~> (pc \in {"exit", "done"})
    /\ (db_schema = "ready" /\ SpacingOk) ~> (pc = "done")

\* C15 witness: the configuration could not be read, and the run ingested a
\* file, skipped another that did not decode, and is done.
C15_Witness ==
    /\ ~config_doc.readable
    /\ pc = "done"
    /\ Len(audio_chunks) >= 1
    /\ \E i \in DOMAIN itask : ~FileInfo(audio_file_list[i]).ok

\* The entries of a batch whose energy is above 0, as a bag.
PositiveEntries(batch) ==
    LET idx == { k \in 1..Len(batch) : batch[k].energy # NaN /\ batch[k].energy > 0 }
    IN  IF idx = {} THEN EmptyBag
        ELSE [e \in { batch[k] : k \in idx } |-> Cardinality({ k \in idx : batch[k] = e })]

\* C16: insert_grains is all or nothing and filters by energy: after a call
\* that returned Ok the table has gained exactly the batch's entries whose
\* energy is above 0, and after a call that returned Err it has gained none.
C16_AllOrNothing ==
    gpc = "stored" =>
        /\ db.result = "Ok" => db.rows = PositiveEntries(db.batch)
        /\ db.result = "Err" => db.rows = EmptyBag

\* C16 witness: the call returned Err and the table holds a row of the batch.
C16_Witness ==
    /\ gpc = "stored"
    /\ db.result = "Err"
    /\ Len(db.batch) = 1
    /\ CopiesIn(db.batch[1], db.rows) = 1

\* C16, the part that holds: the table gains the batch's entries of positive
\* energy or nothing, whatever the result.
C16_EnergyFilter ==
    gpc = "stored" => db.rows \in {EmptyBag, PositiveEntries(db.batch)}

\* C17 as stated: for every grain_size, every grain_spacing >= 1 and every
\* initial_offset, each frame emitted has start < end <= len(samples) and
\* end - start = grain_size.
C17_FrameInvariant ==
    (seg.pc # "idle" /\ seg.grain_spacing >= 1) =>
        \A k \in 1..Len(seg.grains) :
            /\ seg.grains[k][1] < seg.grains[k][2]
            /\ seg.grains[k][2] <= seg.len
            /\ seg.grains[k][2] - seg.grains[k][1] = seg.grain_size

\* C17, what extract_grain_frames emits: each frame has
\* start <= end < len(samples) and end - start = grain_size, whatever the
\* spacing; start < end holds when grain_size >= 1, and a grain_size of 0
\* yields empty frames.
C17_FrameInvariantFromOne ==
    seg.pc # "idle" =>
        \A k \in 1..Len(seg.grains) :
            /\ seg.grains[k][1] <= seg.grains[k][2]
            /\ seg.grains[k][2] < seg.len
            /\ seg.grains[k][2] - seg.grains[k][1] = seg.grain_size
            /\ seg.grain_size >= 1 <=> seg.grains[k][1] < seg.grains[k][2]

\* C17 witness: the call returned several empty frames for a grain_size of
\* 0 and a spacing of 2.
C17_Witness ==
    /\ seg.pc = "returned"
    /\ seg.grain_size = 0
    /\ seg.grain_spacing = 2
    /\ Len(seg.grains) >= 3
    /\ seg.grains[3][1] = seg.grains[3][2]

\* The probe is silence but for one sample of amplitude 1.0 at index at.
OneImpulse(probe, at) ==
    /\ at \in 1..Len(probe)
    /\ probe[at] = One
    /\ \A j \in 1..Len(probe) : j # at => probe[j] = 0

IsPowerOfTwo(n) == \E e \in 0..20 : n = 2 ^ e

\* C19: the fft_size a worker calls analyze_grains with is the smallest
\* power of two that is at least grain_size and at least 512, so that
\* fft_size >= grain_size at the call.
C19_SmallestPowerOfTwo ==
    fsearch.pc = "found" =>
        /\ IsPowerOfTwo(fsearch.fft_size)
        /\ fsearch.fft_size >= FftStart
        /\ fsearch.fft_size >= fsearch.grain_size
        /\ \A q \in { 2 ^ e : e \in 0..20 } :
              (q >= FftStart /\ q >= fsearch.grain_size) => fsearch.fft_size <= q
        /\ fsearch.fft_size = FftSizeFrom(FftStart, fsearch.grain_size)

\* C19 witness: a grain_size just above a power of two, found after two
\* doublings.
C19_Witness ==
    /\ fsearch.pc = "found"
    /\ fsearch.grain_size = 1025
    /\ fsearch.fft_size = 2048

\* C20: extract_grain_frames returns, with the frames of its definition,
\* whenever grain_spacing >= 1; with grain_spacing = 0 and
\* initial_offset + grain_size < L it never returns: i stays at
\* initial_offset and the loop condition holds at every pass.
C20_TerminatesIffSpacing ==
    /\ (seg.pc = "loop" /\ seg.grain_spacing >= 1) ~> (seg.pc = "returned")
    /\ [](seg.pc = "returned"
            => seg.grains = ExtractFrom(seg.len, seg.grain_size, seg.grain_spacing,
                                        seg.initial_offset))
    /\ []((/\ seg.pc # "idle"
           /\ LoopsForever(seg.len, seg.grain_size, seg.grain_spacing, seg.initial_offset))
            => /\ seg.pc = "loop"
               /\ seg.i = seg.initial_offset
               /\ GrainFits(seg.i, seg.grain_size, seg.len))

\* C20 witness: with a spacing of 0 the loop has pushed the same frame five
\* times and is where it started.
C20_Witness ==
    /\ seg.pc = "loop"
    /\ seg.grain_spacing = 0
    /\ seg.grain_size >= 1
    /\ Len(seg.grains) >= 5
    /\ seg.grains[5] = seg.grains[1]
    /\ seg.i = seg.initial_offset

\* C21: check_zeros(grain, N, eps) returns true only when the grain holds
\* more than N consecutive samples with |x| < eps: for both policies of the
\* filter, a probe whose longest such run is exactly N samples is not
\* flagged, and a rejected grain has a run longer than N under one of them.
C21_MoreThanN ==
    AnalysedOk =>
        \A i \in 1..Len(windowed) :
            LET probe == windowed[i].filtered_grain
                n == Len(probe) \div ZeroRunDiv
            IN  /\ check_zeros(probe, n, EpsA) => HasQuietRun(probe, n + 1, EpsA)
                /\ check_zeros(probe, ZeroRunB, EpsB) => HasQuietRun(probe, ZeroRunB + 1, EpsB)
                /\ ~windowed[i].kept => \/ HasQuietRun(probe, n + 1, EpsA)
                                        \/ HasQuietRun(probe, ZeroRunB + 1, EpsB)

\* C21 witness: a probe of 16 samples whose longest run below 1e-3 is
\* exactly 16/8 = 2 samples, with no 50 samples below 1e-5, was rejected.
C21_Witness ==
    /\ AnalysedOk
    /\ Len(windowed) = 1
    /\ Len(windowed[1].filtered_grain) = 16
    /\ HasQuietRun(windowed[1].filtered_grain, 2, EpsA)
    /\ ~HasQuietRun(windowed[1].filtered_grain, 3, EpsA)
    /\ ~HasQuietRun(windowed[1].filtered_grain, ZeroRunB, EpsB)
    /\ check_zeros(windowed[1].filtered_grain, 2, EpsA)
    /\ ~windowed[1].kept
    /\ analysis.entries = <<>>

\* C22: every entry analyze_grains returns carries the (start_frame,
\* end_frame) of the frame whose samples were analysed to produce it,
\* whichever grains of the call were accepted and rejected.
C22_EntryFrameIsAnalysedFrame ==
    AnalysedOk =>
        \A k \in 1..Len(analysis.entries) :
            k <= Len(KeptIndices) =>
                /\ analysis.entries[k].start_frame = frames[KeptIndices[k]][1]
                /\ analysis.entries[k].end_frame = frames[KeptIndices[k]][2]

\* C22 witness: of the frames of extract_grain_frames the first grain was
\* rejected and a later one kept; the entry of the kept grain holds its
\* analysed samples and the rejected grain's frame.
C22_Witness ==
    /\ AnalysedOk
    /\ ~call.caller
    /\ Len(windowed) >= 2
    /\ ~windowed[1].kept
    /\ Len(analysis.entries) >= 1
    /\ KeptIndices[1] > 1
    /\ frames[KeptIndices[1]] # frames[1]
    /\ analysis.entries[1].analysed
           = Runs(adjust_level(ZeroPad(windowed[KeptIndices[1]].grain, call.fft_size)))
    /\ <<analysis.entries[1].start_frame, analysis.entries[1].end_frame>> = frames[1]

\* C22, what analyze_grains records: the k-th entry carries the k-th frame
\* of the list, and the analysed frame only while no earlier grain was
\* rejected.
C22_EntryFrameByPosition ==
    AnalysedOk =>
        \A k \in 1..Len(analysis.entries) :
            /\ <<analysis.entries[k].start_frame, analysis.entries[k].end_frame>> = frames[k]
            /\ (k <= Len(KeptIndices) /\ \A j \in 1..KeptIndices[k] : windowed[j].kept)
                  => frames[k] = frames[KeptIndices[k]]

\* The batches the tasks of profile p have sent so far: one per task that is
\* past its analysis and whose analysis returned Ok, in submission order.
TaskBatches(p) ==
    LET sent == SelectSeq(wtask[p], LAMBDA task :
                    /\ task.st \in {"sending", "done"}
                    /\ WorkOf(task.chunk, grain_profiles[p]).status = "Ok")
    IN  [k \in 1..Len(sent) |->
            [profile |-> p, file |-> sent[k].chunk.file,
             grains |-> WorkOf(sent[k].chunk, grain_profiles[p]).entries]]

\* The batches of profile p that are in the channel.
InFlight(p) ==
    IF p = prof_idx /\ pc \in {"profile_spawn", "profile_recv", "profile_join"}
    THEN [k \in 1..Len(chan) |-> [profile |-> p, file |-> chan[k].file, grains |-> chan[k].grains]]
    ELSE <<>>

\* The batches of profile p handed to insert_grains, whatever the outcome.
HandedBag(p) ==
    LET bs == { [profile |-> h.profile, file |-> h.file, grains |-> h.grains] :
                  h \in { g \in BagToSet(handed) : g.profile = p } }
    IN  IF bs = {} THEN EmptyBag ELSE [b \in bs |-> HandedCopies(b)]

\* How far a task is: queued, taken by a thread, past its send, returned.
TaskRank(task) ==
    CASE task.st = "queued" -> 0
      [] task.st = "running" -> 1
      [] task.st = "sending" -> 2
      [] task.st = "done" -> 3

\* C23: each profile has one worker task per chunk of the chunk set, run at
\* most once; every batch a task sent is in the channel or was handed to
\* insert_grains, once, and nothing else is; when the profile's pass is over
\* every task has run and the batches handed over are exactly those of the
\* tasks whose analysis succeeded, one per such task.
C23_OneTaskOneBatch ==
    /\ [](\A p \in DOMAIN wtask :
            /\ Len(wtask[p]) <= Len(audio_chunks)
            /\ \A t \in DOMAIN wtask[p] : wtask[p][t].chunk = audio_chunks[t]
            /\ p > prof_idx => wtask[p] = <<>>
            /\ (p = prof_idx /\ pc = "profile_spawn") => Len(wtask[p]) = chunk_idx - 1
            /\ (p = prof_idx /\ pc \in {"profile_recv", "profile_join"})
                  => Len(wtask[p]) = Len(audio_chunks)
            /\ ChunkBag(TaskBatches(p)) = HandedBag(p) (+) ChunkBag(InFlight(p))
            /\ p < prof_idx =>
                  /\ Len(wtask[p]) = Len(audio_chunks)
                  /\ \A t \in DOMAIN wtask[p] : wtask[p][t].st = "done"
                  /\ BagCardinality(HandedBag(p))
                        = Cardinality({ t \in DOMAIN wtask[p] :
                              WorkOf(audio_chunks[t], grain_profiles[p]).status = "Ok" }))
    /\ [][\A p \in DOMAIN wtask : \A t \in DOMAIN wtask[p] :
            /\ wtask'[p][t].chunk = wtask[p][t].chunk
            /\ TaskRank(wtask'[p][t]) - TaskRank(wtask[p][t]) \in {0, 1}]_vars

\* C23 witness: on two threads, the first profile's pass is over: of its
\* three tasks (two on chunks of the same file, whose batches carry the same
\* tag) each sent one batch and each batch was handed over once, one of them
\* to a failing insert_grains.
C23_Witness ==
    /\ max_num_threads = 2
    /\ prof_idx = 2
    /\ Len(audio_chunks) = 3
    /\ audio_chunks[1].file = "b.wav"
    /\ audio_chunks[3].file = "b.wav"
    /\ Len(TaskBatches(1)) = 3
    /\ TaskBatches(1)[1] # TaskBatches(1)[3]
    /\ BagCardinality(HandedBag(1)) = 3
    /\ \A b \in BagToSet(HandedBag(1)) : CopiesIn(b, HandedBag(1)) = 1
    /\ failures = 1

\* What locates a grain in the table: its file and its frame.
FrameKey(entry) == <<entry.file, entry.start_frame, entry.end_frame>>

\* The batches of profile p handed to insert_grains.
HandedOf(p) == { h \in BagToSet(handed) : h.profile = p }

\* C24: within one profile no two entries handed to insert_grains have the
\* same (file, start_frame, end_frame), whether they come from one batch or
\* from the batches of two chunks of a split file.
C24_DistinctFrameKeys ==
    \A p \in DOMAIN wtask :
        \A b1 \in HandedOf(p), b2 \in HandedOf(p) :
            /\ CopiesIn(b1, handed) > 1 => b1.grains = <<>>
            /\ \A k1 \in 1..Len(b1.grains), k2 \in 1..Len(b2.grains) :
                  (b1 # b2 \/ k1 # k2) => FrameKey(b1.grains[k1]) # FrameKey(b2.grains[k2])

\* C24 witness: the two chunks of d.wav, none of whose grains the filter
\* rejected, were analysed under the first profile and both batches handed
\* over: the first entry of each has the frame (20000, 20016) of d.wav, and
\* the two entries are of different samples.
C24_Witness ==
    /\ audio_file_list = <<"d.wav">>
    /\ Len(audio_chunks) = 2
    /\ Len(grain_profiles) >= 1
    /\ grain_profiles[1].grain_spacing >= 1
    /\ \A c \in 1..2 :
          /\ WorkOf(audio_chunks[c], grain_profiles[1]).status = "Ok"
          /\ Len(WorkOf(audio_chunks[c], grain_profiles[1]).entries)
                = Len(extract_grain_frames(audio_chunks[c].samples, grain_profiles[1].grain_size,
                                           grain_profiles[1].grain_spacing, InitialOffset))
          /\ \E h \in HandedOf(1) :
                h.grains = WorkOf(audio_chunks[c], grain_profiles[1]).entries
    /\ LET e1 == WorkOf(audio_chunks[1], grain_profiles[1]).entries[1]
           e2 == WorkOf(audio_chunks[2], grain_profiles[1]).entries[1]
       IN  /\ FrameKey(e1) = <<"d.wav", InitialOffset, InitialOffset + 16>>
           /\ FrameKey(e2) = FrameKey(e1)
           /\ e1.analysed # e2.analysed

\* C24, what holds: the entries of one batch have different frames, and the
\* entries of two files have different keys.
C24_DistinctWithinChunk ==
    \A p \in DOMAIN wtask :
        \A b1 \in HandedOf(p), b2 \in HandedOf(p) :
            \A k1 \in 1..Len(b1.grains), k2 \in 1..Len(b2.grains) :
                \/ (b1 = b2 /\ k1 = k2)
                \/ (b1.file = b2.file /\ b1 # b2)
                \/ FrameKey(b1.grains[k1]) # FrameKey(b2.grains[k2])

====
